---- MODULE Spec2Model ----
(***************************************************************************)
(* Job lifecycle of the media-compression service.                         *)
(*                                                                         *)
(* api/jobs/process.ts (the dispatcher the delivery transport calls) and   *)
(* the processJob orchestrators of api/compress/{image,video,audio}.ts are *)
(* modelled step by step: one action per awaited call, because every await *)
(* is a point where another delivery of the same job id can run.  The      *)
(* enqueue handlers of the same files are one action: their only write is  *)
(* the one queue.enqueue makes.                                            *)
(* lib/queue.ts, lib/storage.ts and lib/compressor/index.ts are not among  *)
(* the source files; their operations are modelled from their description  *)
(* in the specification (spec.md 4.1, 4.4, 6).                             *)
(***************************************************************************)
EXTENDS Integers, Sequences, FiniteSets, TLC

(***************************************************************************)
(* Bounds of the model.                                                    *)
(***************************************************************************)
MaxJobs == 2
MaxEnqueues == 1
MaxDeliveries == 2
MaxVariants == 1
MaxThumbs == 1
\* the wider inputs of SpecOneDelivery and SpecEnqueue
FanVariants == 2
FanThumbs == 1
MaxRequests == 3
\* the arguments of the pure functions: byte lengths and pixel dimensions
MaxSize == 3
MaxDim == 2

JobIds == 1..MaxJobs
Procs == 1..MaxDeliveries

NoJob == [absent |-> TRUE]
None == "none"

Kinds == {"image", "video", "audio"}
Terminal == {"completed", "failed"}
Statuses == {"queued", "processing"} \cup Terminal

CompressionFailed == "Compression failed"
UnknownError == "Unknown error"

(***************************************************************************)
(* Values a rejected await can carry.  The catch blocks read               *)
(* `error instanceof Error ? error.message : 'Unknown error'`, so a thrown *)
(* value is an Error with a message or something that is not an Error.     *)
(***************************************************************************)
Err(m) == [isError |-> TRUE, message |-> m]
NotAnError == [isError |-> FALSE, message |-> ""]
NoExc == [isError |-> FALSE, message |-> None]

StoreErrors == {Err("KV unavailable")}
CodecErrors == {Err("Input buffer contains unsupported image format"),
                Err(CompressionFailed), NotAnError}
UploadErrors == {Err("Blob upload failed")}

\* image.ts:189 / :381 / :562 and process.ts:92
ErrorMessage(e) == IF e.isError THEN e.message ELSE UnknownError

(***************************************************************************)
(* What the dispatcher answers: the HTTP status and the JSON body          *)
(* {success, error} of process.ts:17-28, :34-45, :61-72, :75-86, :89-100.  *)
(***************************************************************************)
Response(status, success, error) ==
  [status |-> status, success |-> success, error |-> error]
NoResponse == Response(0, FALSE, None)
JobNotFound == "Job not found"

(***************************************************************************)
(* An enqueue request: the multipart form of api/compress/image.ts:28-47.  *)
(* The bytes of the uploaded file are abstracted to what the pipeline      *)
(* reads of them: whether the codec accepts them, their length, and the    *)
(* length of the codec's output for the i-th requested variant and         *)
(* thumbnail.                                                              *)
(***************************************************************************)
Quality(i) == 90 - 15 * (i - 1)
ThumbSize(i) == 100 + 200 * (i - 1)
Qualities(n) == [i \in 1..n |-> Quality(i)]
ThumbSizes(m) == [i \in 1..m |-> ThumbSize(i)]

Bytes(decodable, length, encoded, thumbs) ==
  [decodable |-> decodable, length |-> length, encoded |-> encoded,
   thumbs |-> thumbs]

\* a form field: absent, a text that is no JSON, or the JSON text of a list
NoField == [given |-> FALSE, json |-> FALSE, value |-> <<>>]
BadField == [given |-> TRUE, json |-> FALSE, value |-> <<>>]
ListField(list) == [given |-> TRUE, json |-> TRUE, value |-> list]

Upload(mimetype, bytes) == [mimetype |-> mimetype, bytes |-> bytes]
Request(parsable, file, qualities, thumbnails) ==
  [parsable |-> parsable, file |-> file,
   fields |-> [qualities |-> qualities, thumbnails |-> thumbnails],
   apiKey |-> "key-1"]

MimeOf(kind) ==
  CASE kind = "image" -> "image/png"
    [] kind = "video" -> "video/mp4"
    [] kind = "audio" -> "audio/mpeg"

\* the encoded lengths of a file whose first variant has length `first`
Encoded(first, n) == [i \in 1..n |-> first \div i]
ThumbBytes(m) == [i \in 1..m |-> 10 * i]

\* requests the handler of `kind` accepts: a file of that kind, nv qualities
\* and nt thumbnail sizes at most; sizes are pairs <<length of the file,
\* length of its first variant>>
ValidRequests(kind, nv, nt, sizes) ==
  { Request(TRUE,
            <<Upload(MimeOf(kind),
                     Bytes(d, sz[1], Encoded(sz[2], nv), ThumbBytes(nt)))>>,
            ListField(Qualities(n)),
            IF kind = "audio" THEN NoField ELSE ListField(ThumbSizes(m))) :
      d \in BOOLEAN, sz \in sizes, n \in 0..nv,
      m \in IF kind = "audio" THEN {0} ELSE 0..nt }

(***************************************************************************)
(* lib/utils.ts: getMediaType (:42-47), getFileExtension (:49-68, the      *)
(* table cut to the types of the model) and the JSON responses (:113-143). *)
(***************************************************************************)
StartsWith(s, prefix) ==
  Len(s) >= Len(prefix) /\ SubSeq(s, 1, Len(prefix)) = prefix
getMediaType(mimeType) ==
  IF StartsWith(mimeType, "image/") THEN "image"
  ELSE IF StartsWith(mimeType, "video/") THEN "video"
  ELSE IF StartsWith(mimeType, "audio/") THEN "audio"
  ELSE "unknown"
getFileExtension(mimeType) ==
  CASE mimeType = "image/png" -> "png"
    [] mimeType = "video/mp4" -> "mp4"
    [] mimeType = "audio/mpeg" -> "mp3"
    [] OTHER -> "bin"

Reply(status, success, error, jobId, jobStatus) ==
  [status |-> status, success |-> success, error |-> error,
   jobId |-> jobId, jobStatus |-> jobStatus]
NoReply == Reply(0, FALSE, None, 0, None)
successResponse(jobId, jobStatus) == Reply(200, TRUE, None, jobId, jobStatus)
errorResponse(message, status) == Reply(status, FALSE, message, 0, None)

\* one enqueue exchange: the handler, its request, what queue.enqueue did
\* ("uncalled", "ok", "refused", "threw") and the response
Exchange(kind, request, queue, response) ==
  [kind |-> kind, request |-> request, queue |-> queue, response |-> response]

\* buffer.toString('base64') and Buffer.from(text, 'base64')
ToBase64(bytes) == [base64 |-> bytes]
FromBase64(text) == text.base64

(***************************************************************************)
(* The options of image.ts:49-65 (video :243-254, audio :434-451): a field *)
(* that is given goes through JSON.parse, one that is absent stays         *)
(* undefined.  The audio handler reads no thumbnails field.                *)
(***************************************************************************)
Undefined == <<>>
Defined(value) == <<value>>
JsonSyntaxError == Err("Unexpected token in JSON")
ParseThrows(kind, fields) ==
  \/ fields.qualities.given /\ ~fields.qualities.json
  \/ kind = "image" /\ fields.thumbnails.given /\ ~fields.thumbnails.json
ParseField(field) == IF field.given THEN Defined(field.value) ELSE Undefined
Options(kind, fields) ==
  [qualities |-> ParseField(fields.qualities),
   thumbnails |-> IF kind = "audio" THEN Undefined
                  ELSE ParseField(fields.thumbnails)]

\* image.ts:67-77: the payload handed to queue.enqueue
PayloadOf(kind, request) ==
  LET file == request.file[1]
  IN  [file |-> [buffer |-> ToBase64(file.bytes), type |-> file.mimetype,
                 size |-> file.bytes.length],
       options |-> Options(kind, request.fields),
       apiKey |-> request.apiKey,
       extension |-> getFileExtension(file.mimetype)]

Requests(kind) ==
  ValidRequests(kind, MaxVariants, MaxThumbs, {<<1000000, 400000>>})

VARIABLES
  todo,       \* how many enqueue requests the clients have yet to send
  reply,      \* the latest enqueue request and what the handler answered
  jobs,       \* the durable job store: job id -> job record, or NoJob
  blobs,      \* the object store: the paths that hold an uploaded object
  clock,      \* the source of `now` for completedAt
  pc,         \* where each delivery's handler stands
  orch,       \* the orchestrator the dispatcher called for the delivery
  jid,        \* the job id a delivery carries
  local,      \* the orchestrator's working copy of the payload (parsedJob)
  cres,       \* what compressMedia returned to this invocation
  ups,        \* the upload promises of this invocation, in the order issued
  exc,        \* the exception the invocation's catch block holds
  resp,       \* the response the dispatcher answered with
  hist,       \* history: what each delivery has done so far
  calc        \* the latest call of a pure function: its arguments and outcome

vars == <<todo, reply, jobs, blobs, clock, pc, orch, jid, local, cres, ups, exc,
          resp, hist, calc>>

(***************************************************************************)
(* lib/storage.ts (described in spec.md 6): deterministic names and paths. *)
(***************************************************************************)
generateFilename(label, extension) == label \o "." \o extension
generatePath(kind, jobId, filename) ==
  kind \o "/" \o ToString(jobId) \o "/" \o filename
Url(path) == "blob://" \o path

uploadEvicting(store, path) == [blobs |-> {path}, url |-> Url(path)]

\* "upload(buffer, path, {contentType}) -> {url}": the object is in the store
\* under the path, beside the objects that were there
upload(store, path) == [blobs |-> store \cup {path}, url |-> Url(path)]

(***************************************************************************)
(* lib/queue.ts (described in spec.md 4.1).  Every operation is one atomic *)
(* read-modify-write of the job record.                                    *)
(***************************************************************************)
getJobStatus(store, jobId) ==
  IF jobId \in DOMAIN store /\ store[jobId] # NoJob
  THEN [success |-> TRUE, job |-> <<store[jobId]>>]
  ELSE [success |-> FALSE, job |-> <<>>]

updateJobStatusAlways(store, jobId, status, progress) ==
  IF store[jobId] = NoJob
  THEN store
  ELSE [store EXCEPT ![jobId].status = status, ![jobId].progress = progress]

\* "a call with status=processing after terminal status is a no-op"
updateJobStatus(store, jobId, status, progress) ==
  IF store[jobId] = NoJob \/ store[jobId].status \in Terminal
  THEN store
  ELSE [store EXCEPT ![jobId].status = status, ![jobId].progress = progress]

saveJobResultOverRecord(store, jobId, result, now) ==
  IF store[jobId] = NoJob
  THEN store
  ELSE [store EXCEPT ![jobId] =
          [type |-> @.type, status |-> "completed", progress |-> 100,
           payload |-> [@.payload EXCEPT !.apiKey = ""],
           result |-> <<result>>, error |-> @.error,
           createdAt |-> @.createdAt, completedAt |-> now]]

\* "sets status=completed, progress=100, completedAt=now, result=..."
saveJobResult(store, jobId, result, now) ==
  IF store[jobId] = NoJob
  THEN store
  ELSE [store EXCEPT ![jobId].status = "completed", ![jobId].progress = 100,
                     ![jobId].completedAt = now, ![jobId].result = <<result>>]

\* "sets status=failed, completedAt=now, error=message"
failJob(store, jobId, message, now) ==
  IF store[jobId] = NoJob
  THEN store
  ELSE [store EXCEPT ![jobId].status = "failed", ![jobId].completedAt = now,
                     ![jobId].error = message]

NewJob(kind, payload, now) ==
  [type |-> kind, status |-> "queued", progress |-> 0, payload |-> payload,
   result |-> <<>>, error |-> None, createdAt |-> now, completedAt |-> 0]

\* "generates a fresh unique id, persists a Job with status=queued,
\* progress=0, createdAt=now"
HasFreshId(store) == \E j \in DOMAIN store : store[j] = NoJob
FreshId(store) ==
  CHOOSE j \in DOMAIN store :
    store[j] = NoJob /\ \A i \in DOMAIN store : i < j => store[i] # NoJob
enqueue(store, jobId, kind, payload, now) ==
  [store EXCEPT ![jobId] = NewJob(kind, payload, now)]

(***************************************************************************)
(* The orchestrators.  The three processJob functions differ in the two    *)
(* middle checkpoints, in the label field of a variant and in audio having *)
(* no thumbnails.                                                          *)
(***************************************************************************)
\* image.ts:112, :300, :498
CheckpointLoaded(kind) == IF kind = "video" THEN 20 ELSE 30
CheckpointCompressedAlways60(kind) == 60

\* image.ts:124, :312, :510
CheckpointCompressed(kind) == IF kind = "audio" THEN 70 ELSE 60

\* the defaults of config.ts (image.ts:1075-1076), cut to the bounds of the model
DefaultQualities == Qualities(MaxVariants)
DefaultThumbnails == ThumbSizes(MaxThumbs)
OptionOr(option, default) == IF option = Undefined THEN default ELSE option[1]

CompressedInReverse(kind, payload) ==
  LET qualities == OptionOr(payload.options.qualities, DefaultQualities)
      buffer == FromBase64(payload.file.buffer)
      n == Len(qualities)
  IN  [i \in 1..n |->
         [quality |-> ToString(qualities[n + 1 - i]) \o "%", format |-> "webp",
          size |-> buffer.encoded[i]]]

\* lib/compressor/image.ts:17-22, :32-49 (quality: `${quality}%`) and :51-74
Compressed(kind, payload) ==
  LET qualities == OptionOr(payload.options.qualities, DefaultQualities)
      buffer == FromBase64(payload.file.buffer)
  IN  [i \in 1..Len(qualities) |->
         [quality |-> ToString(qualities[i]) \o "%", format |-> "webp",
          size |-> buffer.encoded[i]]]
Thumbnails(kind, payload) ==
  LET thumbnails == OptionOr(payload.options.thumbnails, DefaultThumbnails)
      buffer == FromBase64(payload.file.buffer)
  IN  IF kind = "audio" THEN <<>>
      ELSE [i \in 1..Len(thumbnails) |->
              [size |-> ToString(thumbnails[i]) \o "px", format |-> "webp",
               sizeBytes |-> buffer.thumbs[i]]]

UploadPathsThumbnailsFirst(kind, jobId, payload) ==
  LET c == Compressed(kind, payload)
      t == Thumbnails(kind, payload)
  IN  <<generatePath(kind, jobId, generateFilename("original", payload.extension))>>
      \o [i \in 1..Len(t) |->
            generatePath(kind, jobId,
              generateFilename("thumbnail-" \o t[i].size, t[i].format))]
      \o [i \in 1..Len(c) |->
            generatePath(kind, jobId,
              generateFilename("compressed-" \o c[i].quality, c[i].format))]

\* image.ts:126-154: the paths of the fan-out, in the order the uploads are pushed
UploadPaths(kind, jobId, payload) ==
  LET c == Compressed(kind, payload)
      t == Thumbnails(kind, payload)
  IN  <<generatePath(kind, jobId, generateFilename("original", payload.extension))>>
      \o [i \in 1..Len(c) |->
            generatePath(kind, jobId,
              generateFilename("compressed-" \o c[i].quality, c[i].format))]
      \o [i \in 1..Len(t) |->
            generatePath(kind, jobId,
              generateFilename("thumbnail-" \o t[i].size, t[i].format))]

\* image.ts:156: Promise.all resolves to the values of the promises in the
\* order of the promises, whatever the order in which they resolved
PromiseAll(promises) == [i \in 1..Len(promises) |-> [url |-> promises[i].url]]

CompressedUploadsWithOriginal(uploadResults, n) == SubSeq(uploadResults, 1, n)

\* image.ts:161-162
CompressedUploads(uploadResults, n) == SubSeq(uploadResults, 2, 1 + n)
ThumbnailUploads(uploadResults, n) ==
  SubSeq(uploadResults, 2 + n, Len(uploadResults))

\* Number.prototype.toFixed(2) of (num / den) * 100, for integers num and den
Pad2(d) == IF d < 10 THEN "0" \o ToString(d) ELSE ToString(d)
ToFixed2(num, den) ==
  IF den = 0
  THEN IF num = 0 THEN "NaN" ELSE IF num < 0 THEN "-Infinity" ELSE "Infinity"
  ELSE LET a == IF num < 0 THEN -num ELSE num
           whole == (a * 100) \div den
           rest == (a * 100) % den
           hundredths == (rest * 100) \div den
           rest2 == (rest * 100) % den
           n == whole * 100 + hundredths + (IF 2 * rest2 >= den THEN 1 ELSE 0)
       IN  (IF num < 0 THEN "-" ELSE "") \o ToString(n \div 100) \o "."
             \o Pad2(n % 100)

RatioOfLastVariant(length, compressed) ==
  IF Len(compressed) >= 1
  THEN ToFixed2(length - compressed[Len(compressed)].size, length)
  ELSE "0"

\* image.ts:164-167
compressionRatio(length, compressed) ==
  IF Len(compressed) >= 1
  THEN ToFixed2(length - compressed[1].size, length)
  ELSE "0"

\* image.ts:160-186: the result object handed to saveJobResult
UrlAt(uploads, i) == IF i \in 1..Len(uploads) THEN uploads[i].url ELSE ""
BuildResult(fileBuffer, compressed, thumbnails, uploadResults) ==
  LET compressedUploads == CompressedUploads(uploadResults, Len(compressed))
      thumbnailUploads == ThumbnailUploads(uploadResults, Len(compressed))
  IN  [original |-> [url |-> UrlAt(uploadResults, 1),
                     size |-> fileBuffer.length],
       compressed |-> [i \in 1..Len(compressed) |->
                         [quality |-> compressed[i].quality,
                          url |-> UrlAt(compressedUploads, i),
                          size |-> compressed[i].size]],
       thumbnails |-> [i \in 1..Len(thumbnails) |->
                         [size |-> thumbnails[i].size,
                          url |-> UrlAt(thumbnailUploads, i),
                          sizeBytes |-> thumbnails[i].sizeBytes]],
       compressionRatio |->
         compressionRatio(fileBuffer.length, compressed) \o "%"]

\* lib/utils.ts:107-111
calculateCompressionRatio(originalSize, compressedSize) ==
  IF originalSize = 0 THEN "0%"
  ELSE ToFixed2(originalSize - compressedSize, originalSize) \o "%"

\* lib/compressor/image.ts:169-172
ImageCompressor_calculateCompressionRatio(originalSize, compressedSize) ==
  ToFixed2(originalSize - compressedSize, originalSize)

(***************************************************************************)
(* lib/compressor/image.ts: ImageCompressor.compress (:13-97) and          *)
(* generateThumbnail (:124-154).  sharp reads the metadata of the buffer   *)
(* (its width and height, each a number or undefined) and rejects when the *)
(* bytes are no image it can decode.                                       *)
(***************************************************************************)
Metadata(width, height) == [width |-> width, height |-> height]
Min(a, b) == IF a <= b THEN a ELSE b
UnsupportedImage == Err("Input buffer contains unsupported image format")

ThumbnailDimensionsRequested(metadata, size) == [width |-> size, height |-> size]

\* image.ts:69-72 and :148-151 of lib/compressor
ThumbnailDimensions(metadata, size) ==
  [width |-> Min(OptionOr(metadata.width, size), size),
   height |-> Min(OptionOr(metadata.height, size), size)]

Returned(value) == [threw |-> FALSE, error |-> NoExc, value |-> <<value>>]
Threw(e) == [threw |-> TRUE, error |-> e, value |-> <<>>]

\* lib/compressor/image.ts:13-97
ImageCompressor_compress(buffer, metadata, options) ==
  LET payload == [file |-> [buffer |-> ToBase64(buffer)], options |-> options]
      sizes == OptionOr(options.thumbnails, DefaultThumbnails)
      thumbnails == Thumbnails("image", payload)
  IN  IF ~buffer.decodable
      THEN Threw(UnsupportedImage)
      ELSE Returned(
             [success |-> TRUE,
              originals |-> [width |-> OptionOr(metadata.width, 0),
                             height |-> OptionOr(metadata.height, 0),
                             size |-> buffer.length],
              compressed |-> Compressed("image", payload),
              thumbnails |->
                [i \in 1..Len(thumbnails) |->
                   [size |-> thumbnails[i].size,
                    sizeBytes |-> thumbnails[i].sizeBytes,
                    format |-> thumbnails[i].format,
                    dimensions |-> ThumbnailDimensions(metadata, sizes[i])]]])

\* lib/compressor/image.ts:124-154
ImageCompressor_generateThumbnail(buffer, metadata, size) ==
  IF ~buffer.decodable
  THEN Threw(UnsupportedImage)
  ELSE Returned([success |-> TRUE,
                 dimensions |-> ThumbnailDimensions(metadata, size),
                 sizeLabel |-> ToString(size) \o "px"])

SkipJobOnlyWhenMissing(jobData) == ~jobData.success

\* image.ts:98: `!jobData.success || jobData.job?.status !== 'queued'`
SkipJob(jobData) == ~jobData.success \/ jobData.job[1].status # "queued"

InTryEndsBeforeSave(step) ==
  step \in {"load", "progress2", "compress", "progress3", "upload", "progress4"}

InTryFromCompress(step) ==
  step \in {"compress", "progress3", "upload", "progress4", "save"}

\* image.ts:104-187: the awaited steps that stand inside the try block
InTry(step) ==
  step \in {"load", "progress2", "compress", "progress3", "upload",
            "progress4", "save"}

(***************************************************************************)
(* State.                                                                  *)
(***************************************************************************)
NoPayload == [absent |-> TRUE]
Op(name, num, text) == [op |-> name, num |-> num, text |-> text]
NoHist == [entry |-> None, passed |-> FALSE, ops |-> <<>>,
           caught |-> None, propagated |-> None, propagatedError |-> NoExc,
           late |-> FALSE, outOfOrder |-> FALSE]

NoCalc == [fn |-> None]
NoRequest == Request(TRUE, <<>>, NoField, NoField)
NoExchange == Exchange(None, NoRequest, "uncalled", NoReply)

\* no request answered, no delivery received, no object stored
InitIdle ==
  /\ reply = NoExchange
  /\ blobs = {}
  /\ pc = [p \in Procs |-> "idle"]
  /\ orch = [p \in Procs |-> None]
  /\ jid = [p \in Procs |-> 0]
  /\ local = [p \in Procs |-> NoPayload]
  /\ cres = [p \in Procs |-> None]
  /\ ups = [p \in Procs |-> <<>>]
  /\ exc = [p \in Procs |-> NoExc]
  /\ resp = [p \in Procs |-> NoResponse]
  /\ hist = [p \in Procs |-> NoHist]
  /\ calc = NoCalc

InitStores ==
  /\ InitIdle
  /\ jobs = [j \in JobIds |-> NoJob]
  /\ clock = 1

Init == InitStores /\ todo = MaxEnqueues

\* the media kind each processJob carries as a literal: image.ts:116, :130
Kind(p) == orch[p]

(***************************************************************************)
(* An await that rejects at `step` with the value e, h being the history   *)
(* of p including the call that rejected.  Inside the try block the catch  *)
(* of image.ts:187-190 takes it and failJob is the next call; outside it   *)
(* the rejection leaves processJob and the dispatcher's catch              *)
(* (process.ts:87-100) answers 500.                                        *)
(***************************************************************************)
Raise(p, step, e, h) ==
  IF InTry(step)
  THEN /\ pc' = [pc EXCEPT ![p] = "p_fail"]
       /\ exc' = [exc EXCEPT ![p] = e]
       /\ hist' = [hist EXCEPT ![p] = [h EXCEPT !.caught = step]]
       /\ resp' = resp
  ELSE /\ pc' = [pc EXCEPT ![p] = "done"]
       /\ exc' = exc
       /\ hist' = [hist EXCEPT ![p] = [h EXCEPT !.propagated = step,
                                                !.propagatedError = e]]
       /\ resp' = [resp EXCEPT ![p] = Response(500, FALSE, ErrorMessage(e))]

ReturnReportingOutcome(p, h) ==
  /\ pc' = [pc EXCEPT ![p] = "done"]
  /\ resp' = [resp EXCEPT ![p] =
               IF h.caught = None THEN Response(200, TRUE, None)
               ELSE Response(200, FALSE, ErrorMessage(exc[p]))]
  /\ hist' = [hist EXCEPT ![p] = h]
  /\ exc' = exc

\* processJob returned: process.ts:75-86
Return(p, h) ==
  /\ pc' = [pc EXCEPT ![p] = "done"]
  /\ resp' = [resp EXCEPT ![p] = Response(200, TRUE, None)]
  /\ hist' = [hist EXCEPT ![p] = h]
  /\ exc' = exc

Goto(p, label, h) ==
  /\ pc' = [pc EXCEPT ![p] = label]
  /\ hist' = [hist EXCEPT ![p] = h]
  /\ UNCHANGED <<exc, resp>>

\* `await queue.updateJobStatus(jobId, 'processing', progress)` at `step`
Progress(p, step, progress, next) ==
  LET h == [hist[p] EXCEPT
              !.ops = Append(@, Op("updateJobStatus", progress, "")),
              !.late = @ \/ jobs[jid[p]].status \in Terminal]
  IN  /\ UNCHANGED <<calc, orch, todo, reply, blobs, clock, jid, local, cres, ups>>
      /\ \/ /\ jobs' = updateJobStatus(jobs, jid[p], "processing", progress)
            /\ Goto(p, next, h)
         \/ /\ UNCHANGED jobs
            /\ \E e \in StoreErrors : Raise(p, step, e, h)

(***************************************************************************)
(* The enqueue handlers: api/compress/image.ts:22-93 (video :216-281,      *)
(* audio :408-479).  queue.enqueue creates the record under a fresh id,    *)
(* answers success = false, or rejects.                                    *)
(***************************************************************************)
FormErrors == {Err("options.allowEmptyFiles is false, file size should be greater than 0")}
NoFileProvided == "No file provided"
FailedToQueue == "Failed to queue job"
InvalidFileType(kind) ==
  CASE kind = "image" -> "Invalid file type. Expected an image."
    [] kind = "video" -> "Invalid file type. Expected a video."
    [] kind = "audio" -> "Invalid file type. Expected an audio file."
\* image.ts:91: `error instanceof Error ? error.message : 'Failed to compress image'`
HandlerErrorMessage(kind, e) ==
  IF e.isError THEN e.message ELSE "Failed to compress " \o kind

QueueNeverFailed(jobResult) == FALSE

\* image.ts:79
QueueFailed(jobResult) == ~jobResult.success

EnqueueReplyWithoutId(jobResult) == successResponse(0, "queued")

\* image.ts:83-88
EnqueueReply(jobResult) == successResponse(jobResult.jobId, "queued")

\* image.ts:79-88, given what queue.enqueue returned
Answer(kind, request, queue, jobResult) ==
  Exchange(kind, request, queue,
           IF QueueFailed(jobResult) THEN errorResponse(FailedToQueue, 400)
           ELSE EnqueueReply(jobResult))

EnqueueHandler(kind, request) ==
  /\ todo > 0
  /\ todo' = todo - 1
  /\ UNCHANGED <<calc, orch, blobs, pc, jid, local, cres, ups, exc, resp, hist>>
  /\ IF ~request.parsable
     THEN /\ \E e \in FormErrors :
               reply' = Exchange(kind, request, "uncalled",
                          errorResponse(HandlerErrorMessage(kind, e), 500))
          /\ UNCHANGED <<jobs, clock>>
     ELSE IF request.file = <<>>
     THEN /\ reply' = Exchange(kind, request, "uncalled",
                               errorResponse(NoFileProvided, 400))
          /\ UNCHANGED <<jobs, clock>>
     ELSE IF getMediaType(request.file[1].mimetype) # kind
     THEN /\ reply' = Exchange(kind, request, "uncalled",
                               errorResponse(InvalidFileType(kind), 400))
          /\ UNCHANGED <<jobs, clock>>
     ELSE IF ParseThrows(kind, request.fields)
     THEN /\ reply' = Exchange(kind, request, "uncalled",
                          errorResponse(HandlerErrorMessage(kind, JsonSyntaxError), 500))
          /\ UNCHANGED <<jobs, clock>>
     ELSE \/ /\ HasFreshId(jobs)
             /\ jobs' = enqueue(jobs, FreshId(jobs), kind,
                                PayloadOf(kind, request), clock)
             /\ clock' = clock + 1
             /\ reply' = Answer(kind, request, "ok",
                                [success |-> TRUE, jobId |-> FreshId(jobs)])
          \/ /\ reply' = Answer(kind, request, "refused",
                                [success |-> FALSE, jobId |-> 0])
             /\ UNCHANGED <<jobs, clock>>
          \/ /\ \E e \in StoreErrors :
                  reply' = Exchange(kind, request, "threw",
                             errorResponse(HandlerErrorMessage(kind, e), 500))
             /\ UNCHANGED <<jobs, clock>>

(***************************************************************************)
(* The delivery transport posts {jobId} to the dispatcher, at least once   *)
(* and for any id: process.ts:7-29.                                        *)
(***************************************************************************)
Deliver(p, j) ==
  /\ pc[p] = "idle"
  /\ \A q \in Procs : q < p => pc[q] # "idle"
  /\ pc' = [pc EXCEPT ![p] = "h_lookup"]
  /\ jid' = [jid EXCEPT ![p] = j]
  /\ hist' = [hist EXCEPT ![p].entry =
                IF jobs[j] = NoJob THEN "absent" ELSE jobs[j].status]
  /\ UNCHANGED <<calc, orch, todo, reply, jobs, blobs, clock, local, cres, ups, exc, resp>>

\* what the dispatcher does with the job it looked up: call an orchestrator
\* or answer at once
Call(orchestrator) ==
  [pc |-> "p_guard", orchestrator |-> orchestrator, resp |-> NoResponse]
Respond(status, error) ==
  [pc |-> "done", orchestrator |-> None, resp |-> Response(status, FALSE, error)]

RouteWithoutNotFound(jobData) ==
  IF jobData.success /\ jobData.job[1].type \notin Kinds
  THEN Respond(400, "Unknown job type: " \o jobData.job[1].type)
  ELSE Call(IF jobData.success THEN jobData.job[1].type ELSE "image")

RouteAllToImage(jobData) ==
  IF ~jobData.success
  THEN Respond(404, JobNotFound)
  ELSE IF jobData.job[1].type \in Kinds
  THEN Call("image")
  ELSE Respond(400, "Unknown job type: " \o jobData.job[1].type)

\* process.ts:33-73: answer 404, or route by the job's type
Route(jobData) ==
  IF ~jobData.success
  THEN Respond(404, JobNotFound)
  ELSE CASE jobData.job[1].type = "image" -> Call("image")
         [] jobData.job[1].type = "video" -> Call("video")
         [] jobData.job[1].type = "audio" -> Call("audio")
         [] OTHER -> Respond(400, "Unknown job type: " \o jobData.job[1].type)

\* process.ts:31-73: load the job and route
HandlerLookup(p) ==
  /\ pc[p] = "h_lookup"
  /\ LET route == Route(getJobStatus(jobs, jid[p]))
     IN  /\ pc' = [pc EXCEPT ![p] = route.pc]
         /\ orch' = [orch EXCEPT ![p] = route.orchestrator]
         /\ resp' = [resp EXCEPT ![p] = route.resp]
  /\ UNCHANGED <<calc, todo, reply, jobs, blobs, clock, jid, local, cres, ups, exc, hist>>

\* image.ts:96-100: the re-check of status = queued
PGuard(p) ==
  /\ pc[p] = "p_guard"
  /\ IF SkipJob(getJobStatus(jobs, jid[p]))
     THEN Return(p, hist[p])
     ELSE Goto(p, "p_mark", [hist[p] EXCEPT !.passed = TRUE])
  /\ UNCHANGED <<calc, orch, todo, reply, jobs, blobs, clock, jid, local, cres, ups>>

\* image.ts:102
PMark(p) ==
  /\ pc[p] = "p_mark"
  /\ Progress(p, "mark", 10, "p_load")

\* image.ts:105-110: kv.get, JSON.parse, decode of the payload
PLoad(p) ==
  /\ pc[p] = "p_load"
  /\ UNCHANGED <<calc, orch, todo, reply, jobs, blobs, clock, jid, cres, ups>>
  /\ \/ /\ local' = [local EXCEPT ![p] = jobs[jid[p]].payload]
        /\ Goto(p, "p_progress2", hist[p])
     \/ /\ UNCHANGED local
        /\ \E e \in StoreErrors : Raise(p, "load", e, hist[p])

\* image.ts:112
PProgress2(p) ==
  /\ pc[p] = "p_progress2"
  /\ Progress(p, "progress2", CheckpointLoaded(Kind(p)), "p_compress")

\* image.ts:114-122: compressMedia returns a result or rejects; an
\* unsuccessful result is turned into Error('Compression failed')
PCompress(p) ==
  LET h == [hist[p] EXCEPT !.ops = Append(@, Op("compressMedia", 0, ""))]
  IN  /\ pc[p] = "p_compress"
      /\ UNCHANGED <<calc, orch, todo, reply, jobs, blobs, clock, jid, local, ups>>
      /\ \/ /\ FromBase64(local[p].file.buffer).decodable
            /\ cres' = [cres EXCEPT ![p] = "ok"]
            /\ Goto(p, "p_progress3", h)
         \/ /\ ~FromBase64(local[p].file.buffer).decodable
            /\ cres' = [cres EXCEPT ![p] = "unsuccessful"]
            /\ Raise(p, "compress", Err(CompressionFailed), h)
         \/ /\ cres' = [cres EXCEPT ![p] = "threw"]
            /\ \E e \in CodecErrors : Raise(p, "compress", e, h)

PProgress3SkippedByAudio(p) ==
  /\ pc[p] = "p_progress3"
  /\ IF Kind(p) = "audio"
     THEN /\ Goto(p, "p_issue", hist[p])
          /\ UNCHANGED <<calc, orch, todo, reply, jobs, blobs, clock, jid, local,
                         cres, ups>>
     ELSE Progress(p, "progress3", CheckpointCompressed(Kind(p)), "p_issue")

\* image.ts:124
PProgress3(p) ==
  /\ pc[p] = "p_progress3"
  /\ Progress(p, "progress3", CheckpointCompressed(Kind(p)), "p_issue")

\* image.ts:126-154: every upload is started before any is awaited
PIssue(p) ==
  LET paths == UploadPaths(Kind(p), jid[p], local[p])
      h == [hist[p] EXCEPT !.ops =
              @ \o [i \in 1..Len(paths) |-> Op("upload", i, paths[i])]]
  IN  /\ pc[p] = "p_issue"
      /\ ups' = [ups EXCEPT ![p] =
                   [i \in 1..Len(paths) |->
                      [path |-> paths[i], state |-> "pending", url |-> ""]]]
      /\ Goto(p, "p_await", h)
      /\ UNCHANGED <<calc, orch, todo, reply, jobs, blobs, clock, jid, local, cres>>

\* storage.upload settles: the object is stored and its URL returned, or the
\* promise rejects.  Uploads settle in any order, also after the orchestrator
\* has left the await.  The history notes a settlement that overtakes an
\* upload issued before it.
UploadSettle(p, i) ==
  /\ i \in 1..Len(ups[p])
  /\ ups[p][i].state = "pending"
  /\ \/ /\ ups' = [ups EXCEPT ![p][i].state = "ok",
                              ![p][i].url = upload(blobs, ups[p][i].path).url]
        /\ blobs' = upload(blobs, ups[p][i].path).blobs
     \/ /\ ups' = [ups EXCEPT ![p][i].state = "failed"]
        /\ UNCHANGED blobs
  /\ hist' = [hist EXCEPT ![p].outOfOrder =
                @ \/ \E k \in 1..(i - 1) : ups[p][k].state = "pending"]
  /\ UNCHANGED <<calc, orch, todo, reply, jobs, clock, pc, jid, local, cres, exc, resp>>

\* image.ts:156: Promise.all rejects with the first rejection, resolves when
\* every upload has resolved
PAwait(p) ==
  /\ pc[p] = "p_await"
  /\ UNCHANGED <<calc, orch, todo, reply, jobs, blobs, clock, jid, local, cres, ups>>
  /\ IF \E i \in 1..Len(ups[p]) : ups[p][i].state = "failed"
     THEN \E e \in UploadErrors : Raise(p, "upload", e, hist[p])
     ELSE /\ \A i \in 1..Len(ups[p]) : ups[p][i].state = "ok"
          /\ Goto(p, "p_progress4", hist[p])

\* image.ts:158
PProgress4(p) ==
  /\ pc[p] = "p_progress4"
  /\ Progress(p, "progress4", 90, "p_save")

\* image.ts:160-186
PSave(p) ==
  LET result == BuildResult(FromBase64(local[p].file.buffer),
                            Compressed(Kind(p), local[p]),
                            Thumbnails(Kind(p), local[p]), PromiseAll(ups[p]))
      h == [hist[p] EXCEPT !.ops = Append(@, Op("saveJobResult", 0, ""))]
  IN  /\ pc[p] = "p_save"
      /\ UNCHANGED <<calc, orch, todo, reply, blobs, jid, local, cres, ups>>
      /\ \/ /\ jobs' = saveJobResult(jobs, jid[p], result, clock)
            /\ clock' = clock + 1
            /\ Return(p, h)
         \/ /\ UNCHANGED <<jobs, clock>>
            /\ \E e \in StoreErrors : Raise(p, "save", e, h)

PFailDeletingUploads(p) ==
  LET message == ErrorMessage(exc[p])
      h == [hist[p] EXCEPT !.ops = Append(@, Op("failJob", 0, message))]
  IN  /\ pc[p] = "p_fail"
      /\ blobs' = blobs \ {ups[p][i].path : i \in 1..Len(ups[p])}
      /\ UNCHANGED <<calc, orch, todo, reply, jid, local, cres, ups>>
      /\ \/ /\ jobs' = failJob(jobs, jid[p], message, clock)
            /\ clock' = clock + 1
            /\ Return(p, h)
         \/ /\ UNCHANGED <<jobs, clock>>
            /\ \E e \in StoreErrors : Raise(p, "fail", e, h)

\* image.ts:187-190: the catch block
PFail(p) ==
  LET message == ErrorMessage(exc[p])
      h == [hist[p] EXCEPT !.ops = Append(@, Op("failJob", 0, message))]
  IN  /\ pc[p] = "p_fail"
      /\ UNCHANGED <<calc, orch, todo, reply, blobs, jid, local, cres, ups>>
      /\ \/ /\ jobs' = failJob(jobs, jid[p], message, clock)
            /\ clock' = clock + 1
            /\ Return(p, h)
         \/ /\ UNCHANGED <<jobs, clock>>
            /\ \E e \in StoreErrors : Raise(p, "fail", e, h)

Next ==
  \/ \E k \in Kinds : \E r \in Requests(k) : EnqueueHandler(k, r)
  \/ \E p \in Procs : \E j \in JobIds : Deliver(p, j)
  \/ \E p \in Procs : HandlerLookup(p)
  \/ \E p \in Procs : PGuard(p)
  \/ \E p \in Procs : PMark(p)
  \/ \E p \in Procs : PLoad(p)
  \/ \E p \in Procs : PProgress2(p)
  \/ \E p \in Procs : PCompress(p)
  \/ \E p \in Procs : PProgress3(p)
  \/ \E p \in Procs : PIssue(p)
  \/ \E p \in Procs : \E i \in 1..(1 + MaxVariants + MaxThumbs) : UploadSettle(p, i)
  \/ \E p \in Procs : PAwait(p)
  \/ \E p \in Procs : PProgress4(p)
  \/ \E p \in Procs : PSave(p)
  \/ \E p \in Procs : PFail(p)

Spec == Init /\ [][Next]_vars

(***************************************************************************)
(* One enqueue request and one delivery, with a fan-out of FanVariants     *)
(* compressed variants and FanThumbs thumbnails, and with files of several *)
(* lengths.                                                                *)
(***************************************************************************)
InitOneDelivery == InitStores /\ todo = 1

RatioSizes ==
  {<<1000000, 400000>>, <<3, 1>>, <<3, 2>>, <<7, 4>>, <<3, 4>>,
   <<1000, 1000>>, <<8, 1>>, <<1000, 999>>, <<400, 399>>}

\* an image with qualities=[80,60] and thumbnails=[200]
ScenarioRequest ==
  Request(TRUE,
          <<Upload(MimeOf("image"),
                   Bytes(TRUE, 1000000, Encoded(400000, FanVariants),
                         ThumbBytes(FanThumbs)))>>,
          ListField(<<80, 60>>), ListField(<<200>>))

FanRequests(kind) ==
  ValidRequests(kind, FanVariants, FanThumbs, {<<1000000, 400000>>})
    \cup ValidRequests(kind, 1, 0, RatioSizes)
    \cup (IF kind = "image" THEN {ScenarioRequest} ELSE {})

NextOneDelivery ==
  \/ \E k \in Kinds : \E r \in FanRequests(k) : EnqueueHandler(k, r)
  \/ \E j \in JobIds : Deliver(1, j)
  \/ HandlerLookup(1)
  \/ PGuard(1)
  \/ PMark(1)
  \/ PLoad(1)
  \/ PProgress2(1)
  \/ PCompress(1)
  \/ PProgress3(1)
  \/ PIssue(1)
  \/ \E i \in 1..(1 + FanVariants + FanThumbs) : UploadSettle(1, i)
  \/ PAwait(1)
  \/ PProgress4(1)
  \/ PSave(1)
  \/ PFail(1)

SpecOneDelivery == InitOneDelivery /\ [][NextOneDelivery]_vars

(***************************************************************************)
(* The enqueue handlers alone, for MaxRequests requests of every shape:    *)
(* an unreadable form, no file, a file of another kind, an option field    *)
(* that is no JSON, an option field left out.                              *)
(***************************************************************************)
SomeBytes == Bytes(TRUE, 1000, Encoded(400, MaxVariants), ThumbBytes(MaxThumbs))
OtherMimes(kind) == {MimeOf(k) : k \in Kinds \ {kind}} \cup {"text/plain"}

RejectedRequests(kind) ==
  {Request(FALSE, <<>>, NoField, NoField),
   Request(TRUE, <<>>, NoField, NoField),
   Request(TRUE, <<Upload(MimeOf(kind), SomeBytes)>>, BadField, NoField)}
    \cup {Request(TRUE, <<Upload(m, SomeBytes)>>, NoField, NoField) :
            m \in OtherMimes(kind)}

AllRequests(kind) ==
  ValidRequests(kind, 1, 0, {<<1000, 400>>}) \cup RejectedRequests(kind)
    \cup {Request(TRUE, <<Upload(MimeOf(kind), SomeBytes)>>, NoField, NoField)}

InitEnqueue == InitStores /\ todo = MaxRequests

NextEnqueue ==
  \E k \in Kinds : \E r \in AllRequests(k) : EnqueueHandler(k, r)

SpecEnqueue == InitEnqueue /\ [][NextEnqueue]_vars

(***************************************************************************)
(* The dispatcher and one delivery, for a store that holds one queued job  *)
(* whose type field is any text: a media kind, another word, or the        *)
(* "undefined" that `${jobType}` prints for a record without a type.       *)
(***************************************************************************)
UnknownTypes == {"document", "undefined"}
StoredJobs ==
  UNION {{NewJob(t, PayloadOf(k, r), 1) :
            t \in {k} \cup UnknownTypes, r \in Requests(k)} : k \in Kinds}

InitDispatch ==
  /\ InitIdle
  /\ todo = 0
  /\ clock = 2
  /\ \E job \in StoredJobs :
       jobs = [j \in JobIds |-> IF j = 1 THEN job ELSE NoJob]

NextDispatch ==
  \/ \E j \in JobIds : Deliver(1, j)
  \/ HandlerLookup(1)
  \/ PGuard(1)
  \/ PMark(1)
  \/ PLoad(1)
  \/ PProgress2(1)
  \/ PCompress(1)
  \/ PProgress3(1)
  \/ PIssue(1)
  \/ \E i \in 1..(1 + MaxVariants + MaxThumbs) : UploadSettle(1, i)
  \/ PAwait(1)
  \/ PProgress4(1)
  \/ PSave(1)
  \/ PFail(1)

SpecDispatch == InitDispatch /\ [][NextDispatch]_vars

(***************************************************************************)
(* Two queued jobs of two different kinds that carry the same file and the *)
(* same options, each delivered once to its own invocation of the          *)
(* dispatcher: the orchestrators side by side.                             *)
(***************************************************************************)
SameUpload(r1, r2) ==
  /\ r1.file[1].bytes = r2.file[1].bytes
  /\ r1.fields.qualities = r2.fields.qualities
  /\ \/ r1.fields.thumbnails = r2.fields.thumbnails
     \/ NoField \in {r1.fields.thumbnails, r2.fields.thumbnails}

InitKinds ==
  /\ InitIdle
  /\ todo = 0
  /\ clock = 2
  /\ \E k1 \in Kinds : \E k2 \in Kinds \ {k1} :
       \E r1 \in Requests(k1) : \E r2 \in Requests(k2) :
         /\ SameUpload(r1, r2)
         /\ jobs = [j \in JobIds |->
                      IF j = 1 THEN NewJob(k1, PayloadOf(k1, r1), 1)
                      ELSE IF j = 2 THEN NewJob(k2, PayloadOf(k2, r2), 1)
                      ELSE NoJob]

NextKinds ==
  \/ \E p \in {1, 2} : Deliver(p, p)
  \/ \E p \in {1, 2} : HandlerLookup(p)
  \/ \E p \in {1, 2} : PGuard(p)
  \/ \E p \in {1, 2} : PMark(p)
  \/ \E p \in {1, 2} : PLoad(p)
  \/ \E p \in {1, 2} : PProgress2(p)
  \/ \E p \in {1, 2} : PCompress(p)
  \/ \E p \in {1, 2} : PProgress3(p)
  \/ \E p \in {1, 2} : PIssue(p)
  \/ \E p \in {1, 2} : \E i \in 1..(1 + MaxVariants + MaxThumbs) : UploadSettle(p, i)
  \/ \E p \in {1, 2} : PAwait(p)
  \/ \E p \in {1, 2} : PProgress4(p)
  \/ \E p \in {1, 2} : PSave(p)
  \/ \E p \in {1, 2} : PFail(p)

SpecKinds == InitKinds /\ [][NextKinds]_vars

(***************************************************************************)
(* The pure functions, each applied to arguments drawn from bounded sets:  *)
(* the three computations of the compression ratio, ImageCompressor's      *)
(* compress and generateThumbnail.                                         *)
(***************************************************************************)
Sizes == 0..MaxSize
Dimensions == {Undefined} \cup {Defined(d) : d \in 1..MaxDim}
\* a thumbnail of 500px of an original of 200 x 150
ScenarioDimensions == Metadata(Defined(200), Defined(150))
Metadatas ==
  {Metadata(w, h) : w \in Dimensions, h \in Dimensions}
    \cup {ScenarioDimensions}
RequestedSizes == 1..(MaxDim + 1) \cup {500}
SizeLists ==
  {<<>>} \cup {<<a>> : a \in RequestedSizes}
    \cup {<<a, b>> : a \in 1..(MaxDim + 1), b \in 1..(MaxDim + 1)}
VariantLists ==
  {<<>>} \cup {<<[size |-> a]>> : a \in Sizes}
    \cup {<<[size |-> a], [size |-> b]>> : a \in Sizes, b \in Sizes}
Buffers ==
  {Bytes(d, 1000, Encoded(400, FanVariants + MaxVariants),
         ThumbBytes(FanThumbs + MaxThumbs + 1)) : d \in BOOLEAN}
CompressOptions ==
  {[qualities |-> q, thumbnails |-> t] :
     q \in {Undefined} \cup {Defined(Qualities(n)) : n \in 0..FanVariants},
     t \in {Undefined} \cup {Defined(l) : l \in SizeLists}}

\* image.ts:164-167 and :185 (video :355-358, :376; audio :540-543, :557)
ProcessJobRatio(length, compressed) ==
  /\ calc' = [fn |-> "processJob", originalSize |-> length,
              variants |-> compressed,
              out |-> compressionRatio(length, compressed) \o "%"]
  /\ UNCHANGED <<orch, todo, reply, jobs, blobs, clock, pc, jid, local, cres,
                 ups, exc, resp, hist>>

UtilsRatio(originalSize, compressedSize) ==
  /\ calc' = [fn |-> "utils", originalSize |-> originalSize,
              variants |-> <<[size |-> compressedSize]>>,
              out |-> calculateCompressionRatio(originalSize, compressedSize)]
  /\ UNCHANGED <<orch, todo, reply, jobs, blobs, clock, pc, jid, local, cres,
                 ups, exc, resp, hist>>

CompressorRatio(originalSize, compressedSize) ==
  /\ calc' = [fn |-> "imageCompressor", originalSize |-> originalSize,
              variants |-> <<[size |-> compressedSize]>>,
              out |-> ImageCompressor_calculateCompressionRatio(
                        originalSize, compressedSize)]
  /\ UNCHANGED <<orch, todo, reply, jobs, blobs, clock, pc, jid, local, cres,
                 ups, exc, resp, hist>>

Compress(buffer, metadata, options) ==
  /\ calc' = [fn |-> "compress", buffer |-> buffer, metadata |-> metadata,
              options |-> options,
              out |-> ImageCompressor_compress(buffer, metadata, options)]
  /\ UNCHANGED <<orch, todo, reply, jobs, blobs, clock, pc, jid, local, cres,
                 ups, exc, resp, hist>>

GenerateThumbnail(buffer, metadata, size) ==
  /\ calc' = [fn |-> "generateThumbnail", buffer |-> buffer,
              metadata |-> metadata, size |-> size,
              out |-> ImageCompressor_generateThumbnail(buffer, metadata, size)]
  /\ UNCHANGED <<orch, todo, reply, jobs, blobs, clock, pc, jid, local, cres,
                 ups, exc, resp, hist>>

InitFunctions == InitStores /\ todo = 0

NextFunctions ==
  \/ \E o \in Sizes : \E c \in VariantLists : ProcessJobRatio(o, c)
  \/ \E o \in Sizes : \E c \in Sizes : UtilsRatio(o, c)
  \/ \E o \in Sizes : \E c \in Sizes : CompressorRatio(o, c)
  \/ \E b \in Buffers : \E m \in Metadatas : \E o \in CompressOptions :
       Compress(b, m, o)
  \/ \E b \in Buffers : \E m \in Metadatas : \E z \in RequestedSizes :
       GenerateThumbnail(b, m, z)

SpecFunctions == InitFunctions /\ [][NextFunctions]_vars

(***************************************************************************)
(* Properties.                                                             *)
(***************************************************************************)
Exists(j) == jobs[j] # NoJob
Did(p, name) == \E i \in 1..Len(hist[p].ops) : hist[p].ops[i].op = name
LastOp(p) == hist[p].ops[Len(hist[p].ops)]
\* the invocation's updateJobStatus(jobId, 'processing', 10) returned
Marked(p) == hist[p].passed /\ Len(hist[p].ops) >= 1 /\ hist[p].propagated # "mark"

\* C1: a job's status changes only queued -> processing -> completed or
\* queued -> processing -> failed, and never again once completed or failed,
\* for every interleaving of deliveries.
C1_StatusTransitions ==
  [][\A j \in JobIds :
       (Exists(j) /\ jobs'[j].status # jobs[j].status) =>
         <<jobs[j].status, jobs'[j].status>> \in
           {<<"queued", "processing">>, <<"processing", "completed">>,
            <<"processing", "failed">>}]_vars

\* C2: the progress a poll of one job reads never decreases from one state to
\* the next, for every interleaving of deliveries of that job id.
C2_ProgressNonDecreasing ==
  [][\A j \in JobIds : Exists(j) => jobs'[j].progress >= jobs[j].progress]_vars

\* C3: a delivery that arrives when its job is no longer queued is a no-op:
\* the invocation does not pass the guard, calls no updateJobStatus,
\* compressMedia, upload, saveJobResult or failJob, none of its steps changes
\* the job store or the object store, and the dispatcher answers 200.
C3_NotQueuedDeliveryIsNoOp ==
  [][\A p \in Procs :
       hist'[p].entry \in {"processing", "completed", "failed"} =>
         /\ ~hist'[p].passed
         /\ hist'[p].ops = <<>>
         /\ ups'[p] = <<>>
         /\ pc'[p] = "done" => resp'[p] = Response(200, TRUE, None)
         /\ pc'[p] # pc[p] => jobs' = jobs /\ blobs' = blobs]_vars

\* C3 witness: a delivery that found its job completed has been answered 200.
C3_Witness ==
  \E p \in Procs :
    /\ hist[p].entry = "completed"
    /\ pc[p] = "done"
    /\ resp[p].status = 200
    /\ \E q \in Procs \ {p} : jid[q] = jid[p] /\ Did(q, "saveJobResult")

\* C4: of two invocations given the same job id at most one gets past the
\* status = queued check to compress and upload.
C4_AtMostOneProceeds ==
  \A p, q \in Procs :
    (p # q /\ jid[p] = jid[q]) =>
      ~(Did(p, "compressMedia") /\ Did(q, "compressMedia"))

\* C5: once the handler of an invocation that moved the job to processing has
\* finished, the job is completed or failed, whichever calls threw.
C5_NeverLeftProcessing ==
  \A p \in Procs :
    (pc[p] = "done" /\ Marked(p)) => jobs[jid[p]].status \in Terminal

\* C6: an exception raised in steps 2-7 of the orchestrator (load, the
\* progress updates after the first, compress, the upload fan-out,
\* saveJobResult) is caught in processJob and the next call is
\* failJob(jobId, its message); only the first updateJobStatus and failJob
\* itself can make processJob reject.
C6_ExceptionsBecomeFailJob ==
  \A p \in Procs :
    /\ hist[p].propagated \in {None, "mark", "fail"}
    /\ hist[p].caught # None =>
         /\ hist[p].caught \in {"load", "progress2", "compress", "progress3",
                                "upload", "progress4", "save"}
         /\ pc[p] \in {"p_fail", "done"}
         /\ pc[p] = "done" =>
              /\ LastOp(p).op = "failJob"
              /\ exc[p].isError => LastOp(p).text = exc[p].message
              /\ ~exc[p].isError => LastOp(p).text = UnknownError

\* C6 witness: saveJobResult threw, the catch block called failJob and the
\* job is failed with the store error's message.
C6_Witness ==
  \E p \in Procs :
    /\ hist[p].caught = "save"
    /\ pc[p] = "done"
    /\ resp[p].status = 200
    /\ jobs[jid[p]].status = "failed"
    /\ jobs[jid[p]].error = "KV unavailable"

\* C7: when processJob rejects, the dispatcher records the job as failed
\* through failJob.
C7_DispatcherRecordsFailure ==
  \A p \in Procs :
    (pc[p] = "done" /\ hist[p].propagated # None) =>
      jobs[jid[p]].status = "failed"

\* C8: when the compressor returned success = false, the job ends failed with
\* error "Compression failed", without a result and without any upload.
C8_UnsuccessfulCompression ==
  \A p \in Procs :
    (pc[p] = "done" /\ cres[p] = "unsuccessful") =>
      /\ jobs[jid[p]].status = "failed"
      /\ jobs[jid[p]].error = CompressionFailed
      /\ jobs[jid[p]].result = <<>>
      /\ ups[p] = <<>>

\* C9: when the compressor throws, the job is recorded failed with the
\* message "Compression failed", whatever the message of the thrown error.
C9_ThrownCompressionMessage ==
  \A p \in Procs :
    (cres[p] = "threw" /\ Did(p, "failJob")) =>
      LastOp(p).text = CompressionFailed

\* C10: a job is completed only if every upload of the saving invocation's
\* fan-out succeeded and the saved result carries the URLs they returned; if
\* an upload of an invocation fails, the job ends failed and saveJobResult
\* is never called for it.
C10_CompletedOnlyWithAllUploads ==
  /\ \A j \in JobIds :
       (Exists(j) /\ jobs[j].status = "completed") =>
         \E p \in Procs :
           /\ jid[p] = j
           /\ Did(p, "saveJobResult")
           /\ Len(ups[p]) = 1 + Len(jobs[j].result[1].compressed)
                              + Len(jobs[j].result[1].thumbnails)
           /\ \A i \in 1..Len(ups[p]) : ups[p][i].state = "ok"
           /\ jobs[j].result[1].original.url = ups[p][1].url
  /\ \A p \in Procs :
       (pc[p] = "done" /\ hist[p].caught = "upload") =>
         /\ jobs[jid[p]].status = "failed"
         /\ \A q \in Procs : jid[q] = jid[p] => ~Did(q, "saveJobResult")

\* the invocation whose saveJobResult wrote the result of job j
Saved(p, j) == jid[p] = j /\ Did(p, "saveJobResult") /\ hist[p].caught # "save"

\* C11: in the saved result the i-th compressed entry carries the label and
\* the size of the i-th generated variant and the URL returned by the upload
\* issued for that variant's path, the i-th thumbnail entry likewise, and the
\* original URL is the one returned by the upload of the original buffer, in
\* whatever order the uploads completed.
C11_ResultPairsUploadsByIndex ==
  \A j \in JobIds :
    (Exists(j) /\ jobs[j].status = "completed") =>
      \E p \in Procs :
        /\ Saved(p, j)
        /\ LET r == jobs[j].result[1]
               c == Compressed(jobs[j].type, jobs[j].payload)
               t == Thumbnails(jobs[j].type, jobs[j].payload)
           IN  /\ Len(ups[p]) = 1 + Len(c) + Len(t)
               /\ ups[p][1].path =
                    generatePath(jobs[j].type, j,
                      generateFilename("original", jobs[j].payload.extension))
               /\ r.original.url = ups[p][1].url
               /\ Len(r.compressed) = Len(c)
               /\ \A i \in 1..Len(c) :
                    /\ r.compressed[i].quality = c[i].quality
                    /\ r.compressed[i].size = c[i].size
                    /\ ups[p][1 + i].path =
                         generatePath(jobs[j].type, j,
                           generateFilename("compressed-" \o c[i].quality,
                                            c[i].format))
                    /\ r.compressed[i].url = ups[p][1 + i].url
               /\ Len(r.thumbnails) = Len(t)
               /\ \A i \in 1..Len(t) :
                    /\ r.thumbnails[i].size = t[i].size
                    /\ r.thumbnails[i].sizeBytes = t[i].sizeBytes
                    /\ ups[p][1 + Len(c) + i].path =
                         generatePath(jobs[j].type, j,
                           generateFilename("thumbnail-" \o t[i].size,
                                            t[i].format))
                    /\ r.thumbnails[i].url = ups[p][1 + Len(c) + i].url

\* C11 witness: a job completed with FanVariants compressed entries and
\* FanThumbs thumbnails whose uploads did not complete in the order they
\* were issued.
C11_Witness ==
  \E p \in Procs :
    /\ pc[p] = "done"
    /\ Saved(p, jid[p])
    /\ hist[p].outOfOrder
    /\ jobs[jid[p]].status = "completed"
    /\ Len(jobs[jid[p]].result[1].compressed) = FanVariants
    /\ Len(jobs[jid[p]].result[1].thumbnails) = FanThumbs
    /\ jobs[jid[p]].result[1].compressed[FanVariants].url
         = Url(generatePath(jobs[jid[p]].type, jid[p],
                 "compressed-" \o ToString(Quality(FanVariants)) \o "%.webp"))

\* C12: when the dispatcher looks up a job id that has no job record, it
\* answers 404 {success: false, error: "Job not found"} and the invocation
\* ends there: the step changes neither the job store nor the object store,
\* no orchestrator is entered, and the invocation has made and makes no
\* queue, compressor or storage call.
C12_NotFoundHasNoSideEffect ==
  [][\A p \in Procs :
       /\ (pc[p] = "h_lookup" /\ pc'[p] # "h_lookup" /\ ~Exists(jid[p])) =>
            /\ resp'[p] = Response(404, FALSE, JobNotFound)
            /\ pc'[p] = "done"
            /\ jobs' = jobs
            /\ blobs' = blobs
       /\ resp'[p].status = 404 =>
            /\ pc'[p] = "done"
            /\ ~hist'[p].passed
            /\ hist'[p].ops = <<>>
            /\ ups'[p] = <<>>
            /\ local'[p] = NoPayload]_vars

\* C12 witness: a delivery of an id that was never enqueued has been
\* answered "Job not found" while another job exists untouched.
C12_Witness ==
  \E p \in Procs :
    /\ pc[p] = "done"
    /\ resp[p] = Response(404, FALSE, JobNotFound)
    /\ ~Exists(jid[p])
    /\ \E j \in JobIds : Exists(j) /\ jobs[j].status = "queued"

\* C13: in every reachable state a job has a result only if it is completed
\* and an error message only if it is failed, so no job carries both.
C13_ResultAndErrorMatchStatus ==
  \A j \in JobIds :
    Exists(j) =>
      /\ jobs[j].result # <<>> => jobs[j].status = "completed"
      /\ jobs[j].error # None => jobs[j].status = "failed"

\* C14: completedAt is absent while the job is queued or processing, is set
\* at the step that makes the job completed or failed, and is never written
\* again by a later operation or a duplicate delivery.
C14_CompletedAtSetOnce ==
  [][\A j \in JobIds :
       Exists(j) =>
         /\ (jobs'[j].completedAt = 0) <=> (jobs'[j].status \notin Terminal)
         /\ jobs[j].completedAt # 0 => jobs'[j].completedAt = jobs[j].completedAt]_vars

\* the step is the enqueue handler answering a request
Answered == todo' = todo - 1

\* C15: an enqueue that succeeds creates exactly one job, under an id no
\* existing job has, of the handler's kind, with status queued, progress 0
\* and the payload built from the request; the handler answers 200 with
\* that id and status "queued", and starts no compression: no invocation,
\* upload or compressor result changes in the step.
C15_EnqueueCreatesQueuedJob ==
  [][(Answered /\ reply'.queue = "ok") =>
       LET id == reply'.response.jobId
       IN  /\ id \in JobIds
           /\ jobs[id] = NoJob
           /\ jobs'[id] # NoJob
           /\ jobs'[id].status = "queued"
           /\ jobs'[id].progress = 0
           /\ jobs'[id].type = reply'.kind
           /\ jobs'[id].payload = PayloadOf(reply'.kind, reply'.request)
           /\ jobs'[id].result = <<>>
           /\ \A j \in JobIds \ {id} : jobs'[j] = jobs[j]
           /\ reply'.response = Reply(200, TRUE, None, id, "queued")
           /\ UNCHANGED <<blobs, pc, jid, local, cres, ups, hist>>]_vars

\* C15 witness: a second job was enqueued beside an existing one and the
\* handler answered with the new id.
C15_Witness ==
  /\ reply.queue = "ok"
  /\ reply.response = Reply(200, TRUE, None, 2, "queued")
  /\ Exists(1) /\ Exists(2)
  /\ jobs[2].status = "queued" /\ jobs[2].progress = 0
  /\ \A p \in Procs : pc[p] = "idle"

\* the request has no file, a file of another media kind, or an option
\* field that is given and is no JSON
InvalidInput(kind, request) ==
  \/ request.file = <<>>
  \/ getMediaType(request.file[1].mimetype) # kind
  \/ \E f \in {request.fields.qualities, request.fields.thumbnails} :
       f.given /\ ~f.json

\* C16: an enqueue request with invalid input is answered 400 with
\* success = false, and no job is created.
C16_InvalidInputIs400 ==
  [][(Answered /\ reply'.request.parsable
        /\ InvalidInput(reply'.kind, reply'.request)) =>
       /\ reply'.response.status = 400
       /\ ~reply'.response.success
       /\ jobs' = jobs]_vars

\* C17: when queue.enqueue cannot reach the store or the transport (it
\* answers success = false, or rejects), the handler answers with
\* success = false and no job record has been created.
C17_QueueUnavailableCreatesNoJob ==
  [][(Answered /\ reply'.queue \in {"refused", "threw"}) =>
       /\ ~reply'.response.success
       /\ reply'.response.status \in {400, 500}
       /\ reply'.response.jobId = 0
       /\ jobs' = jobs]_vars

\* C17 witness: queue.enqueue answered success = false, the handler answered
\* "Failed to queue job" and the store holds no job.
C17_Witness ==
  /\ reply.queue = "refused"
  /\ reply.response = Reply(400, FALSE, FailedToQueue, 0, None)
  /\ \A j \in JobIds : ~Exists(j)
  /\ todo < MaxRequests

\* the step is p's call of updateJobStatus
CallsUpdate(p) ==
  /\ Len(hist'[p].ops) = Len(hist[p].ops) + 1
  /\ hist'[p].ops[Len(hist'[p].ops)].op = "updateJobStatus"

\* C18: an updateJobStatus(jobId, 'processing', n) issued when the job is
\* already completed or failed leaves the job's status, progress, result,
\* error and completedAt as they are.
C18_LateUpdateIsNoOp ==
  [][\A p \in Procs :
       (CallsUpdate(p) /\ jobs[jid[p]].status \in Terminal) =>
         jobs' = jobs]_vars

\* C18 witness: a duplicate invocation's progress write has returned after
\* the other invocation had completed the job, which is still completed
\* with progress 100.
C18_Witness ==
  \E p \in Procs :
    /\ hist[p].late
    /\ LastOp(p) = Op("updateJobStatus", 90, "")
    /\ pc[p] = "p_save"
    /\ jobs[jid[p]].status = "completed"
    /\ jobs[jid[p]].progress = 100
    /\ jobs[jid[p]].completedAt # 0

\* C19: the payload of a job (file, options, extension, API key) and its
\* media kind are what the enqueue stored, after every step of every
\* orchestrator and of the dispatcher.
C19_PayloadImmutable ==
  [][\A j \in JobIds :
       Exists(j) =>
         /\ jobs'[j].payload = jobs[j].payload
         /\ jobs'[j].type = jobs[j].type]_vars

\* C19 witness: a job has been processed to completed by one invocation and
\* then failed by a duplicate one, and its payload and kind are still those
\* built from the enqueue request.
C19_Witness ==
  \E j \in JobIds :
    /\ Exists(j)
    /\ jobs[j].status = "failed"
    /\ jobs[j].result # <<>>
    /\ reply.queue = "ok"
    /\ reply.response.jobId = j
    /\ jobs[j].type = reply.kind
    /\ jobs[j].payload = PayloadOf(reply.kind, reply.request)
    /\ jobs[j].payload.apiKey = "key-1"

\* num / den * 100 rounded to the nearest hundredth and written with two
\* decimals
TwoDecimals(num, den) ==
  LET a == IF num < 0 THEN -num ELSE num
      n == (20000 * a + den) \div (2 * den)
  IN  (IF num < 0 THEN "-" ELSE "") \o ToString(n \div 100) \o "."
        \o (IF n % 100 < 10 THEN "0" ELSE "") \o ToString(n % 100)

\* C20: for a completed job with at least one compressed variant,
\* compressionRatio is (originalSize - firstVariantSize) / originalSize * 100
\* with two decimals and a trailing '%', taken from the first variant in
\* generation order; an original of 1,000,000 and a first variant of 400,000
\* give "60.00%".
C20_CompressionRatioOfFirstVariant ==
  \A j \in JobIds :
    (Exists(j) /\ jobs[j].status = "completed"
       /\ Len(jobs[j].result[1].compressed) >= 1) =>
      LET r == jobs[j].result[1]
          originalSize == FromBase64(jobs[j].payload.file.buffer).length
          first == Compressed(jobs[j].type, jobs[j].payload)[1]
      IN  /\ r.original.size = originalSize
          /\ r.compressed[1].size = first.size
          /\ originalSize <= 1000 =>
               r.compressionRatio
                 = TwoDecimals(originalSize - first.size, originalSize) \o "%"
          /\ (originalSize = 1000000 /\ first.size = 400000) =>
               r.compressionRatio = "60.00%"

\* C20 witness: a job of 1,000,000 bytes with FanVariants variants, the
\* first of 400,000 bytes and the last shorter, is completed with
\* compressionRatio "60.00%".
C20_Witness ==
  \E j \in JobIds :
    /\ Exists(j)
    /\ jobs[j].status = "completed"
    /\ Len(jobs[j].result[1].compressed) = FanVariants
    /\ jobs[j].result[1].original.size = 1000000
    /\ jobs[j].result[1].compressed[1].size = 400000
    /\ jobs[j].result[1].compressed[FanVariants].size < 400000
    /\ jobs[j].result[1].compressionRatio = "60.00%"

Digits == {"0", "1", "2", "3", "4", "5", "6", "7", "8", "9"}
\* the text is a decimal number, with a sign or without, followed by '%'
IsPercentage(text) ==
  LET n == Len(text) - 1
      first == IF n >= 1 /\ SubSeq(text, 1, 1) = "-" THEN 2 ELSE 1
  IN  /\ n >= first
      /\ SubSeq(text, n + 1, n + 1) = "%"
      /\ SubSeq(text, first, first) \in Digits
      /\ SubSeq(text, n, n) \in Digits
      /\ \A i \in first..n : SubSeq(text, i, i) \in Digits \cup {"."}
      /\ Cardinality({i \in first..n : SubSeq(text, i, i) = "."}) <= 1

C22_OneEntryPerRequestedOption ==
  \A j \in JobIds :
    (Exists(j) /\ jobs[j].type = "image" /\ jobs[j].status = "completed") =>
      LET r == jobs[j].result[1]
          requested == jobs[j].payload.options
      IN  /\ requested.qualities # Undefined =>
               /\ Len(r.compressed) = Len(requested.qualities[1])
               /\ \A i \in 1..Len(r.compressed) :
                    r.compressed[i].quality
                      = ToString(requested.qualities[1][i]) \o "%"
          /\ requested.thumbnails # Undefined =>
               /\ Len(r.thumbnails) = Len(requested.thumbnails[1])
               /\ \A i \in 1..Len(r.thumbnails) :
                    r.thumbnails[i].size
                      = ToString(requested.thumbnails[1][i]) \o "px"

\* C22 witness: the image job enqueued with qualities=[80,60] and
\* thumbnails=[200] is completed with the entries 80%, 60% and 200px.
C22_Witness ==
  \E j \in JobIds :
    /\ Exists(j)
    /\ reply.request = ScenarioRequest
    /\ reply.response.jobId = j
    /\ jobs[j].status = "completed"
    /\ Len(jobs[j].result[1].compressed) = 2
    /\ jobs[j].result[1].compressed[1].quality = "80%"
    /\ jobs[j].result[1].compressed[2].quality = "60%"
    /\ Len(jobs[j].result[1].thumbnails) = 1
    /\ jobs[j].result[1].thumbnails[1].size = "200px"

\* the reported dimensions are within the requested bound and within the
\* original's width and height
WithinBounds(dimensions, metadata, size) ==
  /\ dimensions.width <= size
  /\ dimensions.height <= size
  /\ metadata.width # Undefined => dimensions.width <= metadata.width[1]
  /\ metadata.height # Undefined => dimensions.height <= metadata.height[1]

\* C23: for every original width and height and every requested thumbnail
\* size, the dimensions compress and generateThumbnail report for a thumbnail
\* exceed neither the requested bound nor the original's dimensions; a 500px
\* thumbnail of a 200x150 original reports at most 200x150.
C23_ThumbnailNeverUpscales ==
  /\ (calc.fn = "compress" /\ ~calc.out.threw) =>
       LET sizes == OptionOr(calc.options.thumbnails, DefaultThumbnails)
           thumbnails == calc.out.value[1].thumbnails
       IN  /\ Len(thumbnails) = Len(sizes)
           /\ \A i \in 1..Len(thumbnails) :
                WithinBounds(thumbnails[i].dimensions, calc.metadata, sizes[i])
  /\ (calc.fn = "generateThumbnail" /\ ~calc.out.threw) =>
       WithinBounds(calc.out.value[1].dimensions, calc.metadata, calc.size)

\* C23 witness: compress has produced the 500px thumbnail of a 200x150
\* original and reports 200x150 for it.
C23_Witness ==
  /\ calc.fn = "compress"
  /\ calc.metadata = ScenarioDimensions
  /\ calc.options.thumbnails = Defined(<<500>>)
  /\ ~calc.out.threw
  /\ calc.out.value[1].thumbnails[1].size = "500px"
  /\ calc.out.value[1].thumbnails[1].dimensions = [width |-> 200, height |-> 150]

\* C24: when the bytes are structurally invalid for the claimed media kind,
\* compress returns a result with success = false and does not throw past
\* its own boundary.
C24_InvalidInputReportsFailure ==
  (calc.fn = "compress" /\ ~calc.buffer.decodable) =>
    /\ ~calc.out.threw
    /\ ~calc.out.value[1].success

IsUpdate(call) == call.op = "updateJobStatus"
\* the progress values of the updateJobStatus calls of p, in call order
ProgressCalls(ops) ==
  LET updates == SelectSeq(ops, IsUpdate)
  IN  [i \in 1..Len(updates) |-> updates[i].num]
IsPrefix(s, t) == Len(s) <= Len(t) /\ s = SubSeq(t, 1, Len(s))
IndexOf(ops, name) == CHOOSE i \in 1..Len(ops) : ops[i].op = name
Checkpoints(kind) ==
  CASE kind = "image" -> <<10, 30, 60, 90>>
    [] kind = "video" -> <<10, 20, 60, 90>>
    [] kind = "audio" -> <<10, 30, 70, 90>>

\* what C25 says of one step
CheckpointsKept ==
  /\ \A p \in Procs :
       hist'[p].ops # <<>> =>
         LET ops == hist'[p].ops
             written == ProgressCalls(ops)
             expected == Checkpoints(jobs'[jid'[p]].type)
         IN  /\ IsPrefix(written, expected)
             /\ ops[1] = Op("updateJobStatus", 10, "")
             /\ Len(written) >= 3 =>
                  /\ cres'[p] = "ok"
                  /\ \E i \in 1..Len(ops) :
                       /\ ops[i].op = "compressMedia"
                       /\ \A k \in 1..i : ops[k].num # expected[3]
             /\ Len(written) >= 4 =>
                  /\ Len(ups'[p]) >= 1
                  /\ \A i \in 1..Len(ups'[p]) : ups'[p][i].state = "ok"
             /\ (\E i \in 1..Len(ops) : ops[i].op = "saveJobResult") =>
                  /\ written = expected
                  /\ \A i \in IndexOf(ops, "saveJobResult")..Len(ops) :
                       ~IsUpdate(ops[i])
  /\ \A j \in JobIds :
       (Exists(j) /\ jobs'[j].progress = 100 /\ jobs[j].progress # 100) =>
         \E q \in Procs :
           /\ jid[q] = j
           /\ pc[q] = "p_save"
           /\ hist'[q].ops = Append(hist[q].ops, Op("saveJobResult", 0, ""))

\* C25: an orchestration writes progress in the fixed order 10, 30, 60, 90
\* for image, 10, 20, 60, 90 for video and 10, 30, 70, 90 for audio, all four
\* before it calls saveJobResult; the checkpoint after compression is written
\* only after the compressor returned success, 90 only after every upload
\* resolved, and progress becomes 100 only by saveJobResult.
C25_ProgressCheckpoints == [][CheckpointsKept]_vars

\* C25 witness: an audio job has run to completion: its orchestration wrote
\* 10, 30, 70 and 90 and saveJobResult set progress 100.
C25_Witness ==
  \E p \in Procs :
    /\ pc[p] = "done"
    /\ Saved(p, jid[p])
    /\ jobs[jid[p]].type = "audio"
    /\ ProgressCalls(hist[p].ops) = <<10, 30, 70, 90>>
    /\ LastOp(p).op = "saveJobResult"
    /\ jobs[jid[p]].status = "completed"
    /\ jobs[jid[p]].progress = 100

IsUploadCall(call) == call.op = "upload"
\* the path {kind}/{jobId}/{name}.{extension}
PathOf(kind, jobId, name, extension) ==
  kind \o "/" \o ToString(jobId) \o "/" \o name \o "." \o extension

\* what C26 says of one step
FanOutKept ==
  \A p \in Procs :
    (\E i \in 1..Len(hist'[p].ops) : IsUploadCall(hist'[p].ops[i])) =>
      LET ops == hist'[p].ops
          uploads == SelectSeq(ops, IsUploadCall)
          first == CHOOSE i \in 1..Len(ops) :
                     IsUploadCall(ops[i]) /\ \A k \in 1..(i - 1) : ~IsUploadCall(ops[k])
          j == jid'[p]
          kind == jobs'[j].type
          variants == Compressed(kind, jobs'[j].payload)
          thumbnails == Thumbnails(kind, jobs'[j].payload)
          n == Len(variants)
          m == Len(thumbnails)
      IN  /\ Len(uploads) = 1 + n + m
          /\ kind = "audio" => Len(uploads) = 1 + n
          /\ uploads[1].text
               = PathOf(kind, j, "original", jobs'[j].payload.extension)
          /\ \A i \in 1..n :
               uploads[1 + i].text
                 = PathOf(kind, j, "compressed-" \o variants[i].quality,
                          variants[i].format)
          /\ \A i \in 1..m :
               uploads[1 + n + i].text
                 = PathOf(kind, j, "thumbnail-" \o thumbnails[i].size,
                          thumbnails[i].format)
          \* issued together, in the order of the promises
          /\ \A i \in 1..Len(uploads) : ops[first + i - 1] = uploads[i]
          /\ Len(ups'[p]) = Len(uploads)
          /\ \A i \in 1..Len(uploads) : ups'[p][i].path = uploads[i].text
          \* none awaited before all are issued
          /\ (~\E i \in 1..Len(hist[p].ops) : IsUploadCall(hist[p].ops[i])) =>
               /\ pc'[p] = "p_await"
               /\ \A i \in 1..Len(ups'[p]) : ups'[p][i].state = "pending"
          \* none issued before the compressor returned success
          /\ cres'[p] = "ok"
          /\ \E i \in 1..(first - 1) : ops[i].op = "compressMedia"

\* C26: for a job with n compressed variants and m thumbnails the
\* orchestrator issues exactly 1 + n + m uploads (1 + n for audio), in the
\* order original, variants in generation order, thumbnails in generation
\* order, each under the path built from the job's kind and id and the names
\* original.{ext}, compressed-{label}.{format}, thumbnail-{label}.{format};
\* all are issued before any is awaited and none before the compressor
\* returned success.
C26_UploadFanOut == [][FanOutKept]_vars

\* C26 witness: the orchestrator of an image job with FanVariants variants
\* and FanThumbs thumbnails has issued its uploads and awaits them, all still
\* pending.
C26_Witness ==
  \E p \in Procs :
    /\ pc[p] = "p_await"
    /\ jobs[jid[p]].type = "image"
    /\ Len(ups[p]) = 1 + FanVariants + FanThumbs
    /\ \A i \in 1..Len(ups[p]) : ups[p][i].state = "pending"
    /\ ups[p][1].path = "image/" \o ToString(jid[p]) \o "/original.png"
    /\ ups[p][2].path = "image/" \o ToString(jid[p]) \o "/compressed-90%.webp"
    /\ ups[p][1 + FanVariants + FanThumbs].path
         = "image/" \o ToString(jid[p]) \o "/thumbnail-"
             \o ToString(ThumbSize(FanThumbs)) \o "px.webp"

\* C27: the dispatcher routes a job it found to exactly one orchestrator,
\* the one of the job's kind; for a job whose kind is none of image, video
\* and audio it answers with an "Unknown job type" error, calls no
\* orchestrator and changes no job.
C27_RoutesByKind ==
  \A p \in Procs :
    (pc[p] \notin {"idle", "h_lookup"} /\ Exists(jid[p])) =>
      LET job == jobs[jid[p]]
      IN  IF job.type \in Kinds
          THEN /\ orch[p] = job.type
               /\ resp[p].status \notin {400, 404}
          ELSE /\ orch[p] = None
               /\ pc[p] = "done"
               /\ resp[p] = Response(400, FALSE, "Unknown job type: " \o job.type)
               /\ ~hist[p].passed
               /\ hist[p].ops = <<>>
               /\ ups[p] = <<>>
               /\ blobs = {}
               /\ job.status = "queued" /\ job.progress = 0
               /\ job.result = <<>> /\ job.error = None /\ job.completedAt = 0

\* C27 witness: the delivery of a stored job of type "document" has been
\* answered "Unknown job type: document" and the job is still queued.
C27_Witness ==
  \E p \in Procs :
    /\ pc[p] = "done"
    /\ Exists(jid[p])
    /\ jobs[jid[p]].type = "document"
    /\ resp[p] = Response(400, FALSE, "Unknown job type: document")
    /\ jobs[jid[p]].status = "queued"

\* what C28 says of one step
OrphansKept ==
  /\ blobs \subseteq blobs'
  /\ \A p \in Procs :
       (\E i \in 1..Len(ups'[p]) : ups'[p][i].state = "failed") =>
         /\ \A i \in 1..Len(ups'[p]) :
              ups'[p][i].state = "ok" => ups'[p][i].path \in blobs'
         /\ \A i \in 1..Len(hist'[p].ops) :
              hist'[p].ops[i].op \in {"updateJobStatus", "compressMedia",
                                     "upload", "failJob"}

\* C28: when an upload of the fan-out fails, the uploads of the other files
\* that succeeded or are still in flight are not undone: the orchestrator
\* issues no delete, so their objects stay in the store while the job is
\* recorded as failed.
C28_SiblingUploadsRemain == [][OrphansKept]_vars

\* C28 witness: the upload of the original failed, the job is recorded
\* failed with the upload error, and the object of a sibling upload that
\* succeeded is in the store.
C28_Witness ==
  \E p \in Procs :
    /\ pc[p] = "done"
    /\ hist[p].caught = "upload"
    /\ LastOp(p) = Op("failJob", 0, "Blob upload failed")
    /\ jobs[jid[p]].status = "failed"
    /\ jobs[jid[p]].error = "Blob upload failed"
    /\ ups[p][1].state = "failed"
    /\ \E i \in 2..Len(ups[p]) :
         ups[p][i].state = "ok" /\ ups[p][i].path \in blobs

IsSave(call) == call.op = "saveJobResult"
IsFail(call) == call.op = "failJob"

C30_FirstUpdateThrows ==
  [][\A p \in Procs :
       hist'[p].propagated = "mark" =>
         /\ pc'[p] = "done"
         /\ hist'[p].ops = <<Op("updateJobStatus", 10, "")>>
         /\ hist'[p].caught = None
         /\ ups'[p] = <<>>
         /\ local'[p] = NoPayload
         /\ resp'[p] = Response(500, FALSE,
                                ErrorMessage(hist'[p].propagatedError))
         /\ hist[p].propagated # "mark" =>
              /\ jobs' = jobs
              /\ blobs' = blobs
              /\ jobs'[jid[p]].status \notin Terminal]_vars

C31_ReturnedMeans200 ==
  \A p \in Procs :
    (pc[p] = "done" /\ orch[p] # None) =>
      /\ hist[p].propagated = None <=> resp[p] = Response(200, TRUE, None)
      /\ hist[p].propagated # None =>
           resp[p] = Response(500, FALSE, ErrorMessage(hist[p].propagatedError))
      /\ (~hist[p].passed \/ IsSave(LastOp(p)) \/ IsFail(LastOp(p)))
           /\ hist[p].propagated = None
           => resp[p] = Response(200, TRUE, None)

\* C31 witness: one invocation caught a rejection, recorded the job as failed
\* and was answered 200 with success = true; a later delivery of the same
\* job was skipped at the guard and answered the same.
C31_Witness ==
  \E p, q \in Procs :
    /\ p # q
    /\ pc[p] = "done" /\ pc[q] = "done"
    /\ jid[p] = jid[q]
    /\ hist[p].caught # None
    /\ IsFail(LastOp(p))
    /\ jobs[jid[p]].status = "failed"
    /\ orch[q] # None /\ ~hist[q].passed /\ hist[q].entry = "failed"
    /\ resp[p] = Response(200, TRUE, None)
    /\ resp[q] = resp[p]

\* what C32 says of one job record
ProgressMatchesStatus(job) ==
  /\ job.progress \in 0..100
  /\ job.status = "queued" => job.progress = 0
  /\ job.progress = 100 <=> job.status = "completed"

\* a step keeps the relation of progress and status, and a step that records
\* a job as failed leaves the progress it had, which is below 100
ProgressKept ==
  \A j \in JobIds :
    /\ jobs[j] # NoJob => ProgressMatchesStatus(jobs[j])
    /\ jobs'[j] # NoJob => ProgressMatchesStatus(jobs'[j])
    /\ (jobs[j] # NoJob /\ jobs[j].status # "failed"
          /\ jobs'[j].status = "failed") =>
         /\ jobs'[j].progress = jobs[j].progress
         /\ jobs'[j].progress < 100

\* C32: in every reachable state a job's progress is an integer in 0..100,
\* it is 0 while the job is queued, it is 100 if and only if the job is
\* completed, and a job recorded as failed keeps the last checkpoint, below
\* 100, it had reached.
C32_ProgressMatchesStatus == [][ProgressKept]_vars

\* the outcomes of the collaborator calls of an invocation: what the guard
\* found, what compressMedia answered, which awaited call rejected and with
\* what
Outcomes(p) ==
  [passed |-> hist[p].passed, compress |-> cres[p],
   caught |-> hist[p].caught, caughtError |-> exc[p],
   propagated |-> hist[p].propagated,
   propagatedError |-> hist[p].propagatedError]

\* the sequence of calls with the upload fan-out as one entry and without
\* the values of the two middle checkpoints
Ordinal(ops, i) == Len(SelectSeq(SubSeq(ops, 1, i), IsUpdate))
Skeleton(ops) ==
  LET first(call) == ~IsUploadCall(call) \/ call.num = 1
      f == SelectSeq(ops, first)
  IN  [i \in 1..Len(f) |->
         IF IsUploadCall(f[i]) THEN Op("upload fan-out", 0, "")
         ELSE IF IsUpdate(f[i]) /\ Ordinal(f, i) \in {2, 3}
         THEN Op("updateJobStatus", 0, "")
         ELSE f[i]]

\* the number of uploads an orchestrator of `kind` issues for a payload
FanOut(kind, payload) ==
  1 + Len(OptionOr(payload.options.qualities, DefaultQualities))
    + (IF kind = "audio" THEN 0
       ELSE Len(OptionOr(payload.options.thumbnails, DefaultThumbnails)))

====
